---- MODULE Spec2Model ----
(***************************************************************************)
(* Model of rust/src/detect/mod.rs: the keyword registration bridge        *)
(* (helper_keyword_register_sticky_buffer, SCDetectSigMatchNamesFree), the *)
(* signature option flags, the ByteEndian / ByteBase enums with their      *)
(* token parsers, and the EnumString codec exercised by the unit test.     *)
(*                                                                         *)
(* Text is modelled as sequences: a Rust String / C string is a sequence   *)
(* of byte values (0 is the NUL byte), a rule token or an identifier is a  *)
(* sequence of one-character strings.                                      *)
(***************************************************************************)
EXTENDS Integers, Sequences, FiniteSets, TLC

VARIABLES
    status,          \* life of the process: startup, running, shutdown, done, aborted, panicked
    heap,            \* allocator: address -> [st, bytes]
    released,        \* address -> number of times a CString was rebuilt from it and dropped
    sigmatch_table,  \* the engine's keyword table: sequence of registration records
    ffi,             \* the engine calls that returned to the helper, in order
    calls,           \* the inputs of every call of the register helper, in order
    returned,        \* the identifiers the register helper returned, in order
    freeCalls,       \* table index -> number of invocations of SCDetectSigMatchNamesFree
    out              \* the last codec / parser call: [set, fn, arg, res]

vars == <<status, heap, released, sigmatch_table, ffi, calls, returned, freeCalls, out>>

regVars == <<status, heap, released, sigmatch_table, ffi, calls, returned, freeCalls>>

(***************************************************************************)
(* Bounds of the model.                                                    *)
(***************************************************************************)
MaxKeywords == 3

Addr == 1..(3 * MaxKeywords)

Ids == 1..MaxKeywords

None == [tag |-> "None"]

Some(v) == [tag |-> "Some", val |-> v]

(***************************************************************************)
(* Signature option flags (u16 bit field).                                 *)
(***************************************************************************)
SIGMATCH_NOOPT == 1

SIGMATCH_OPTIONAL_OPT == 16

SIGMATCH_QUOTES_MANDATORY == 64

SIGMATCH_INFO_STICKY_BUFFER == 512

U16 == 65536

RECURSIVE BitOr(_, _)
BitOr(a, b) ==
    IF a = 0 THEN b
    ELSE IF b = 0 THEN a
    ELSE (IF a % 2 = 1 \/ b % 2 = 1 THEN 1 ELSE 0) + 2 * BitOr(a \div 2, b \div 2)

RECURSIVE BitAnd(_, _)
BitAnd(a, b) ==
    IF a = 0 \/ b = 0 THEN 0
    ELSE (IF a % 2 = 1 /\ b % 2 = 1 THEN 1 ELSE 0) + 2 * BitAnd(a \div 2, b \div 2)

(***************************************************************************)
(* Inputs of the register helper: SigTableElmtStickyBuffer values.         *)
(* Strings are byte sequences; <<97, 0, 98>> holds an interior NUL byte.   *)
(***************************************************************************)
KwNames == { <<97>>, <<98>>, <<99>>, <<101>>, <<97, 0, 98>> }

KwDescs == { <<100>>, <<100, 0>> }

KwUrls == { <<117>>, <<0, 117>> }

KwSetups == { "setup_a", "setup_b" }

SigTableElmtStickyBuffer ==
    [name : KwNames, desc : KwDescs, url : KwUrls, setup : KwSetups]

(***************************************************************************)
(* The machine state the bridge and the engine act on.                     *)
(***************************************************************************)
Machine ==
    [status |-> status, heap |-> heap, released |-> released,
     table |-> sigmatch_table, ffi |-> ffi, returned |-> returned, ub |-> FALSE]

Alive(m) == m.status \in {"startup", "running", "shutdown"}

\* The allocator hands out the lowest address never handed out.
Malloc(h) == CHOOSE a \in Addr : h[a].st = "unalloc" /\ \A b \in Addr : b < a => h[b].st # "unalloc"

\* CString::new(bytes): an interior NUL byte is an error, otherwise the
\* bytes with the terminating NUL appended.
CStringNew(bytes) ==
    IF \E i \in 1..Len(bytes) : bytes[i] = 0
    THEN [ok |-> FALSE, bytes |-> <<>>]
    ELSE [ok |-> TRUE, bytes |-> bytes \o <<0>>]

\* A variant that does not treat a failed allocation as fatal: the call goes
\* on with whatever buffer it got.
NewRawCString_Unchecked(m, bytes, oom) ==
    IF ~Alive(m) THEN [m |-> m, ptr |-> 0]
    ELSE IF ~CStringNew(bytes).ok THEN [m |-> [m EXCEPT !.status = "panicked"], ptr |-> 0]
    ELSE LET a == Malloc(m.heap)
         IN [m |-> [m EXCEPT !.heap[a] = [st |-> "live", bytes |-> CStringNew(bytes).bytes]],
             ptr |-> a]

\* CString::new(s.as_bytes()).unwrap().into_raw(): a failed allocation aborts
\* the process, a NulError panics in unwrap, otherwise the buffer is leaked
\* to a raw pointer.  Nothing allocated before a failure is released.
NewRawCString(m, bytes, oom) ==
    IF ~Alive(m) THEN [m |-> m, ptr |-> 0]
    ELSE IF oom THEN [m |-> [m EXCEPT !.status = "aborted"], ptr |-> 0]
    ELSE IF ~CStringNew(bytes).ok THEN [m |-> [m EXCEPT !.status = "panicked"], ptr |-> 0]
    ELSE LET a == Malloc(m.heap)
         IN [m |-> [m EXCEPT !.heap[a] = [st |-> "live", bytes |-> CStringNew(bytes).bytes]],
             ptr |-> a]

\* A variant that also sets the optional-option bit.
StickyBufferFlags_WithOptional ==
    BitOr(BitOr(SIGMATCH_NOOPT, SIGMATCH_OPTIONAL_OPT), SIGMATCH_INFO_STICKY_BUFFER) % U16

\* The flags of the record the helper builds.
StickyBufferFlags == BitOr(SIGMATCH_NOOPT, SIGMATCH_INFO_STICKY_BUFFER) % U16

\* The SCSigTableAppLiteElmt the helper builds.
SCSigTableAppLiteElmt(name, desc, url, kw) ==
    [name |-> name, desc |-> desc, url |-> url,
     Setup |-> Some(kw.setup),
     flags |-> StickyBufferFlags,
     AppLayerTxMatch |-> None,
     Free |-> None]

(***************************************************************************)
(* The engine side of the registration contract (the C engine's keyword    *)
(* table), modelled from the specification.                                *)
(***************************************************************************)
CStr(m, p) == m.heap[p].bytes

NameRegistered(m, nameBytes) ==
    \E i \in 1..Len(m.table) : CStr(m, m.table[i].elmt.name) = nameBytes

\* Registration: a name collision is fatal to start-up; otherwise the record
\* is appended to the keyword table and its index is the identifier.
SCDetectHelperKeywordRegister(m, st) ==
    IF NameRegistered(m, CStr(m, st.name))
    THEN [m |-> [m EXCEPT !.status = "aborted"], id |-> 0]
    ELSE LET id == (Len(m.table) + 1) % U16
         IN [m |-> [m EXCEPT !.table = Append(@, [elmt |-> st, cleanCString |-> FALSE]),
                             !.ffi = Append(@, [fn |-> "SCDetectHelperKeywordRegister", id |-> id])],
             id |-> id]

\* Marks the keyword's strings as C strings to be released by Rust at shutdown.
SCDetectHelperKeywordSetCleanCString(m, id) ==
    [m EXCEPT !.table = IF id \in 1..Len(@) THEN [@ EXCEPT ![id].cleanCString = TRUE] ELSE @,
              !.ffi = Append(@, [fn |-> "SCDetectHelperKeywordSetCleanCString", id |-> id])]

(***************************************************************************)
(* helper_keyword_register_sticky_buffer                                   *)
(***************************************************************************)
helper_keyword_register_sticky_buffer(m, kw, oom) ==
    LET n == NewRawCString(m, kw.name, oom = 1)
        d == NewRawCString(n.m, kw.desc, oom = 2)
        u == NewRawCString(d.m, kw.url, oom = 3)
    IN IF ~Alive(u.m) THEN u.m
       ELSE LET st == SCSigTableAppLiteElmt(n.ptr, d.ptr, u.ptr, kw)
                r == SCDetectHelperKeywordRegister(u.m, st)
            IN IF ~Alive(r.m) THEN r.m
               ELSE LET c == SCDetectHelperKeywordSetCleanCString(r.m, r.id)
                    IN [c EXCEPT !.returned = Append(@, r.id)]

(***************************************************************************)
(* SCDetectSigMatchNamesFree                                               *)
(***************************************************************************)
\* let _ = CString::from_raw(p): the CString is rebuilt from the raw pointer
\* and dropped at once, which releases the allocation.  Doing so on an
\* allocation that is not live is undefined behaviour, recorded in ub.
FromRawDrop(m, p) ==
    [m EXCEPT !.released[p] = @ + 1,
              !.heap[p].st = "freed",
              !.ub = @ \/ m.heap[p].st # "live"]

\* A variant that forgets the url field.
SCDetectSigMatchNamesFree_LeakUrl(m, kw) ==
    FromRawDrop(FromRawDrop(m, kw.name), kw.desc)

\* The release entry point: name, desc and url of one record, in that order.
SCDetectSigMatchNamesFree(m, kw) ==
    FromRawDrop(FromRawDrop(FromRawDrop(m, kw.name), kw.desc), kw.url)

\* SCSigTableNamesElmt: the three string fields of one registration record.
SCSigTableNamesElmt(rec) ==
    [name |-> rec.elmt.name, desc |-> rec.elmt.desc, url |-> rec.elmt.url]

Install(m) ==
    /\ status' = m.status
    /\ heap' = m.heap
    /\ released' = m.released
    /\ sigmatch_table' = m.table
    /\ ffi' = m.ffi
    /\ returned' = m.returned

\* A keyword module registers itself during engine start-up.
RegisterKeyword(kw, oom) ==
    /\ status = "startup"
    /\ Len(sigmatch_table) < MaxKeywords
    /\ calls' = Append(calls, [kw |-> kw, oom |-> oom])
    /\ Install(helper_keyword_register_sticky_buffer(Machine, kw, oom))
    /\ UNCHANGED <<freeCalls, out>>

\* Start-up ends: the keyword table is frozen and traffic is processed.
StartupDone ==
    /\ status = "startup"
    /\ status' = "running"
    /\ UNCHANGED <<heap, released, sigmatch_table, ffi, calls, returned, freeCalls, out>>

\* The engine starts its shutdown.
ShutdownBegin ==
    /\ status = "running"
    /\ status' = "shutdown"
    /\ UNCHANGED <<heap, released, sigmatch_table, ffi, calls, returned, freeCalls, out>>

\* One invocation of the release entry point for table record i.  Undefined
\* behaviour (a release of an allocation that is not live) either is caught
\* by the allocator, which aborts the process, or goes through silently.
InvokeNamesFree(i, caught) ==
    LET m == SCDetectSigMatchNamesFree(Machine,
                                       SCSigTableNamesElmt(sigmatch_table[i]))
    IN /\ freeCalls' = [freeCalls EXCEPT ![i] = @ + 1]
       /\ IF m.ub /\ caught
          THEN /\ status' = "aborted"
               /\ UNCHANGED <<heap, released>>
          ELSE /\ heap' = m.heap
               /\ released' = m.released
               /\ UNCHANGED status
       /\ UNCHANGED <<sigmatch_table, ffi, calls, returned, out>>

\* The engine's shutdown path: every record marked for C-string cleanup is
\* handed to the release entry point once, in table order.
SigTableCleanup(i) ==
    /\ status = "shutdown"
    /\ i \in 1..Len(sigmatch_table)
    /\ sigmatch_table[i].cleanCString
    /\ freeCalls[i] = 0
    /\ \A j \in 1..(i - 1) : sigmatch_table[j].cleanCString => freeCalls[j] > 0
    /\ \E caught \in BOOLEAN : InvokeNamesFree(i, caught)

\* The shutdown path has visited the whole table.
ShutdownDone ==
    /\ status = "shutdown"
    /\ \A i \in 1..Len(sigmatch_table) : sigmatch_table[i].cleanCString => freeCalls[i] > 0
    /\ status' = "done"
    /\ UNCHANGED <<heap, released, sigmatch_table, ffi, calls, returned, freeCalls, out>>

\* A caller of the exported entry point that hands it a record again.
NamesFreeAgain(i) ==
    /\ status = "shutdown"
    /\ i \in 1..Len(sigmatch_table)
    /\ freeCalls[i] = 1
    /\ \E caught \in BOOLEAN : InvokeNamesFree(i, caught)

(***************************************************************************)
(* Enumerations and the EnumString codec.                                  *)
(***************************************************************************)
U8 == 256

\* A variant with EndianDCE renumbered onto LittleEndian's code.
ByteEndian_Renumbered ==
    << [ident |-> "BigEndian", code |-> 1],
       [ident |-> "LittleEndian", code |-> 2],
       [ident |-> "EndianDCE", code |-> 2] >>

\* #[repr(u8)] enum ByteEndian
ByteEndian ==
    << [ident |-> "BigEndian", code |-> 1],
       [ident |-> "LittleEndian", code |-> 2],
       [ident |-> "EndianDCE", code |-> 3] >>

\* #[repr(u8)] enum ByteBase
ByteBase ==
    << [ident |-> "BaseOct", code |-> 8],
       [ident |-> "BaseDec", code |-> 10],
       [ident |-> "BaseHex", code |-> 16] >>

\* Variants of the test enum: a duplicated code, a shifted code.
TestEnum_DuplicateCode ==
    << [ident |-> "Zero", code |-> 0],
       [ident |-> "BestValueEver", code |-> 0] >>

TestEnum_Renumbered ==
    << [ident |-> "Zero", code |-> 0],
       [ident |-> "BestValueEver", code |-> 43] >>

\* #[repr(u8)] enum TestEnum of the unit test
TestEnum ==
    << [ident |-> "Zero", code |-> 0],
       [ident |-> "BestValueEver", code |-> 42] >>

EnumSets == {"ByteEndian", "ByteBase", "TestEnum"}

Declared(set) ==
    CASE set = "ByteEndian" -> ByteEndian
      [] set = "ByteBase" -> ByteBase
      [] set = "TestEnum" -> TestEnum

Variants(set) == { Declared(set)[i].ident : i \in 1..Len(Declared(set)) }

AllVariants == UNION { Variants(set) : set \in EnumSets }

\* A variant with the last word of BestValueEver not capitalized.
Identifier_Respelled(v) ==
    CASE v = "BigEndian" -> <<"B", "i", "g", "E", "n", "d", "i", "a", "n">>
      [] v = "LittleEndian" -> <<"L", "i", "t", "t", "l", "e", "E", "n", "d", "i", "a", "n">>
      [] v = "EndianDCE" -> <<"E", "n", "d", "i", "a", "n", "D", "C", "E">>
      [] v = "BaseOct" -> <<"B", "a", "s", "e", "O", "c", "t">>
      [] v = "BaseDec" -> <<"B", "a", "s", "e", "D", "e", "c">>
      [] v = "BaseHex" -> <<"B", "a", "s", "e", "H", "e", "x">>
      [] v = "Zero" -> <<"Z", "e", "r", "o">>
      [] v = "BestValueEver" -> <<"B", "e", "s", "t", "V", "a", "l", "u", "e", "e", "v", "e", "r">>

\* The spelling of each variant identifier, character by character.
Identifier(v) ==
    CASE v = "BigEndian" -> <<"B", "i", "g", "E", "n", "d", "i", "a", "n">>
      [] v = "LittleEndian" -> <<"L", "i", "t", "t", "l", "e", "E", "n", "d", "i", "a", "n">>
      [] v = "EndianDCE" -> <<"E", "n", "d", "i", "a", "n", "D", "C", "E">>
      [] v = "BaseOct" -> <<"B", "a", "s", "e", "O", "c", "t">>
      [] v = "BaseDec" -> <<"B", "a", "s", "e", "D", "e", "c">>
      [] v = "BaseHex" -> <<"B", "a", "s", "e", "H", "e", "x">>
      [] v = "Zero" -> <<"Z", "e", "r", "o">>
      [] v = "BestValueEver" -> <<"B", "e", "s", "t", "V", "a", "l", "u", "e", "E", "v", "e", "r">>

\* The enums that derive the EnumString codec (EnumStringU8): the derive
\* list of ByteEndian and ByteBase names Copy, Clone, Debug, PartialEq, Eq only.
Derives(set) == set = "TestEnum"

\* The value of `v as u8` for a variant of a #[repr(u8)] enum.
AsU8(set, v) ==
    LET d == Declared(set)
        i == CHOOSE k \in 1..Len(d) : d[k].ident = v
    IN d[i].code % U8

\* A variant whose fallback arm yields the decimal base.
get_string_value_DefaultDec(value) ==
    CASE value = <<"h", "e", "x">> -> Some("BaseHex")
      [] value = <<"o", "c", "t">> -> Some("BaseOct")
      [] OTHER -> Some("BaseDec")

\* fn get_string_value(value: &str) -> Option<ByteBase>
get_string_value(value) ==
    CASE value = <<"h", "e", "x">> -> Some("BaseHex")
      [] value = <<"o", "c", "t">> -> Some("BaseOct")
      [] value = <<"d", "e", "c">> -> Some("BaseDec")
      [] OTHER -> None

UpperCase == <<"A", "B", "C", "D", "E", "F", "G", "H", "I", "J", "K", "L", "M", "N", "O", "P", "Q", "R", "S", "T", "U", "V", "W", "X", "Y", "Z">>

LowerCase == <<"a", "b", "c", "d", "e", "f", "g", "h", "i", "j", "k", "l", "m", "n", "o", "p", "q", "r", "s", "t", "u", "v", "w", "x", "y", "z">>

IsUpper(c) == \E i \in 1..26 : UpperCase[i] = c

ToLower(c) == IF IsUpper(c) THEN LowerCase[CHOOSE i \in 1..26 : UpperCase[i] = c] ELSE c

\* A variant that folds the case of the token before matching.
get_endian_value_CaseFold(value) ==
    LET v == [i \in 1..Len(value) |-> ToLower(value[i])]
    IN CASE v = <<"b", "i", "g">> -> Some("BigEndian")
         [] v = <<"l", "i", "t", "t", "l", "e">> -> Some("LittleEndian")
         [] v = <<"d", "c", "e">> -> Some("EndianDCE")
         [] OTHER -> None

\* fn get_endian_value(value: &str) -> Option<ByteEndian>
get_endian_value(value) ==
    CASE value = <<"b", "i", "g">> -> Some("BigEndian")
      [] value = <<"l", "i", "t", "t", "l", "e">> -> Some("LittleEndian")
      [] value = <<"d", "c", "e">> -> Some("EndianDCE")
      [] OTHER -> None

(***************************************************************************)
(* The derived EnumString implementation (the derive macro is not part of  *)
(* this file; it is modelled from the specification of the codec).         *)
(***************************************************************************)
\* Canonical name of an identifier: every capitalized word lowercased, the
\* words joined by single underscores.
RECURSIVE transform_name(_, _)
transform_name(ident, i) ==
    IF i > Len(ident) THEN <<>>
    ELSE (IF i > 1 /\ IsUpper(ident[i]) THEN <<"_", ToLower(ident[i])>> ELSE <<ToLower(ident[i])>>)
         \o transform_name(ident, i + 1)

\* The result of calling a trait method on a type that does not implement it.
NoImpl == [tag |-> "NoImpl"]

\* Index of the first declared variant matching the predicate's set, or 0.
FirstWithCode(d, c) ==
    IF \E k \in 1..Len(d) : d[k].code = c
    THEN CHOOSE k \in 1..Len(d) : d[k].code = c /\ \A j \in 1..(k - 1) : d[j].code # c
    ELSE 0

FirstWithName(d, s) ==
    IF \E k \in 1..Len(d) : transform_name(Identifier(d[k].ident), 1) = s
    THEN CHOOSE k \in 1..Len(d) : /\ transform_name(Identifier(d[k].ident), 1) = s
                                  /\ \A j \in 1..(k - 1) : transform_name(Identifier(d[j].ident), 1) # s
    ELSE 0

\* fn from_u(v: T) -> Option<Self>
from_u(set, c) ==
    IF ~Derives(set) THEN NoImpl
    ELSE LET k == FirstWithCode(Declared(set), c)
         IN IF k = 0 THEN None ELSE Some(Declared(set)[k].ident)

\* fn into_u(self) -> T
into_u(set, v) == IF ~Derives(set) THEN NoImpl ELSE AsU8(set, v)

\* fn to_str(&self) -> &'static str
to_str(set, v) == IF ~Derives(set) THEN NoImpl ELSE transform_name(Identifier(v), 1)

\* fn from_str(s: &str) -> Option<Self>
from_str(set, s) ==
    IF ~Derives(set) THEN NoImpl
    ELSE LET k == FirstWithName(Declared(set), s)
         IN IF k = 0 THEN None ELSE Some(Declared(set)[k].ident)

(***************************************************************************)
(* Inputs of the codec and the parsers.                                    *)
(***************************************************************************)
Tokens ==
    { <<"b", "i", "g">>,
      <<"l", "i", "t", "t", "l", "e">>,
      <<"d", "c", "e">>,
      <<"h", "e", "x">>,
      <<"o", "c", "t">>,
      <<"d", "e", "c">>,
      <<>>,
      <<"B", "i", "g">>,
      <<"B", "I", "G">>,
      <<"D", "C", "E">>,
      <<"D", "c", "e">>,
      <<"L", "i", "t", "t", "l", "e">>,
      <<"H", "e", "x">>,
      <<"D", "E", "C">>,
      <<"O", "c", "t">>,
      <<" ", "b", "i", "g">>,
      <<"b", "i", "g", " ">>,
      <<"d", "c", "e", " ">>,
      <<" ", "h", "e", "x">>,
      <<"d", "e", "c", " ">>,
      <<"n", "o", "p", "e">>,
      <<"z", "e", "r", "o">>,
      <<"b", "e", "s", "t", "_", "v", "a", "l", "u", "e", "_", "e", "v", "e", "r">>,
      <<"Z", "e", "r", "o">>,
      <<"Z", "E", "R", "O">>,
      <<"B", "e", "s", "t", "_", "V", "a", "l", "u", "e", "_", "E", "v", "e", "r">>,
      <<"b", "e", "s", "t", "v", "a", "l", "u", "e", "e", "v", "e", "r">>,
      <<"B", "e", "s", "t", "V", "a", "l", "u", "e", "E", "v", "e", "r">>,
      <<"b", "e", "s", "t", "_", "v", "a", "l", "u", "e", "_", "e", "v", "e", "r", " ">>,
      <<"b", "i", "g", "_", "e", "n", "d", "i", "a", "n">>,
      <<"b", "a", "s", "e", "_", "d", "e", "c">> }

Codes == 0..(U8 - 1)

Result(fn, set, arg, res) == [fn |-> fn, set |-> set, arg |-> arg, res |-> res]

Call_get_endian_value(tok) ==
    /\ out' = Result("get_endian_value", "ByteEndian", tok, get_endian_value(tok))
    /\ UNCHANGED regVars

Call_get_string_value(tok) ==
    /\ out' = Result("get_string_value", "ByteBase", tok, get_string_value(tok))
    /\ UNCHANGED regVars

Call_as_u8(set, v) ==
    /\ v \in Variants(set)
    /\ out' = Result("as_u8", set, v, AsU8(set, v))
    /\ UNCHANGED regVars

Call_from_u(set, c) ==
    /\ out' = Result("from_u", set, c, from_u(set, c))
    /\ UNCHANGED regVars

Call_into_u(set, v) ==
    /\ v \in Variants(set)
    /\ out' = Result("into_u", set, v, into_u(set, v))
    /\ UNCHANGED regVars

Call_to_str(set, v) ==
    /\ v \in Variants(set)
    /\ out' = Result("to_str", set, v, to_str(set, v))
    /\ UNCHANGED regVars

Call_from_str(set, tok) ==
    /\ out' = Result("from_str", set, tok, from_str(set, tok))
    /\ UNCHANGED regVars

\* from_u(v.into_u())
RoundTrip_u(set, v) ==
    /\ v \in Variants(set)
    /\ out' = Result("from_u.into_u", set, v,
                     IF Derives(set) THEN from_u(set, into_u(set, v)) ELSE NoImpl)
    /\ UNCHANGED regVars

\* from_str(v.to_str())
RoundTrip_str(set, v) ==
    /\ v \in Variants(set)
    /\ out' = Result("from_str.to_str", set, v,
                     IF Derives(set) THEN from_str(set, to_str(set, v)) ELSE NoImpl)
    /\ UNCHANGED regVars

Init ==
    /\ status = "startup"
    /\ heap = [a \in Addr |-> [st |-> "unalloc", bytes |-> <<>>]]
    /\ released = [a \in Addr |-> 0]
    /\ sigmatch_table = <<>>
    /\ ffi = <<>>
    /\ calls = <<>>
    /\ returned = <<>>
    /\ freeCalls = [i \in Ids |-> 0]
    /\ out = None

Next ==
    \/ \E kw \in SigTableElmtStickyBuffer, oom \in 0..3 : RegisterKeyword(kw, oom)
    \/ StartupDone
    \/ ShutdownBegin
    \/ \E i \in Ids : SigTableCleanup(i)
    \/ ShutdownDone

\* The engine follows the release contract: one release call per registration.
Spec == Init /\ [][Next]_vars

NextRecall ==
    \/ Next
    \/ \E i \in Ids : NamesFreeAgain(i)

\* The exported release entry point may be handed a record a second time.
SpecRecall == Init /\ [][NextRecall]_vars

NextCodec ==
    \/ \E tok \in Tokens : Call_get_endian_value(tok)
    \/ \E tok \in Tokens : Call_get_string_value(tok)
    \/ \E set \in EnumSets, v \in AllVariants : Call_as_u8(set, v)
    \/ \E set \in EnumSets, c \in Codes : Call_from_u(set, c)
    \/ \E set \in EnumSets, v \in AllVariants : Call_into_u(set, v)
    \/ \E set \in EnumSets, v \in AllVariants : Call_to_str(set, v)
    \/ \E set \in EnumSets, tok \in Tokens : Call_from_str(set, tok)
    \/ \E set \in EnumSets, v \in AllVariants : RoundTrip_u(set, v)
    \/ \E set \in EnumSets, v \in AllVariants : RoundTrip_str(set, v)

\* The codec and the parsers applied to every input of their bounded domains.
SpecCodec == Init /\ [][NextCodec]_vars

(***************************************************************************)
(* Properties of the registration bridge.                                  *)
(***************************************************************************)
Range(f) == { f[i] : i \in DOMAIN f }

\* The addresses held by the records of the keyword table.
StringsOf(t) == {t.elmt.name, t.elmt.desc, t.elmt.url}

Transferred == UNION { StringsOf(t) : t \in Range(sigmatch_table) }

\* C1: with one release call per registration at shutdown, every transferred
\* string (name, desc, url of every record, all distinct allocations) is
\* released exactly once: all are live and unreleased while the engine has
\* not begun its shutdown (the bridge frees nothing it transferred), none is
\* ever released twice, and after shutdown each has been released once and
\* nothing is left allocated.
C1_ReleasedExactlyOnce ==
    /\ Cardinality(Transferred) = 3 * Len(sigmatch_table)
    /\ \A a \in Addr : released[a] <= 1
    /\ status \in {"startup", "running"} =>
           \A a \in Transferred : heap[a].st = "live" /\ released[a] = 0
    /\ status = "done" =>
           /\ \A a \in Transferred : released[a] = 1 /\ heap[a].st = "freed"
           /\ \A a \in Addr : heap[a].st # "live"

C1_Witness ==
    /\ status = "done"
    /\ Len(sigmatch_table) >= 2
    /\ \A i \in 1..Len(sigmatch_table) : freeCalls[i] = 1
    /\ \A a \in Transferred : released[a] = 1

\* C2: a second invocation of SCDetectSigMatchNamesFree for the same record
\* is detected and fails loudly, so no transferred string is ever released
\* twice.
C2_SecondReleaseDetected ==
    \A i \in 1..Len(sigmatch_table) :
        freeCalls[i] >= 2 =>
            /\ status = "aborted"
            /\ \A a \in StringsOf(sigmatch_table[i]) : released[a] <= 1

\* The inputs of the register call made in this step, and whether it failed
\* for one of the two reasons of the contract.
LastCall == calls'[Len(calls')]

Collides(kw) ==
    \E i \in 1..Len(sigmatch_table) :
        heap[sigmatch_table[i].elmt.name].bytes = kw.name \o <<0>>

IsSingleBit(x) == \E k \in 0..15 : x = 2 ^ k

\* C10: every record handed to the engine has flags exactly 0x001 | 0x200
\* (NoOption and StickyBuffer, so never NoOption together with
\* OptionalOption), carries the caller's setup callback and no match and no
\* free callback; each return of the helper is preceded by the engine's
\* register call and then the cleanup mark of the identifier that call
\* returned, which is the identifier the helper returns; exactly the
\* returned identifiers are marked.  The four flag constants are distinct
\* single bits.
C10_StickyBufferRecord ==
    /\ \A i \in 1..Len(sigmatch_table) :
           LET e == sigmatch_table[i].elmt
           IN /\ e.flags = 513
              /\ BitAnd(e.flags, 1) = 1
              /\ BitAnd(e.flags, 512) = 512
              /\ BitAnd(e.flags, 16) = 0
              /\ e.Setup = Some(calls[i].kw.setup)
              /\ e.AppLayerTxMatch = None
              /\ e.Free = None
              /\ sigmatch_table[i].cleanCString <=> \E k \in 1..Len(returned) : returned[k] = i
    /\ Len(ffi) = 2 * Len(returned)
    /\ \A k \in 1..Len(returned) :
           /\ ffi[2 * k - 1] = [fn |-> "SCDetectHelperKeywordRegister", id |-> returned[k]]
           /\ ffi[2 * k] = [fn |-> "SCDetectHelperKeywordSetCleanCString", id |-> returned[k]]
    /\ LET bits == {SIGMATCH_NOOPT, SIGMATCH_OPTIONAL_OPT,
                    SIGMATCH_QUOTES_MANDATORY, SIGMATCH_INFO_STICKY_BUFFER}
       IN /\ Cardinality(bits) = 4
          /\ \A b \in bits : IsSingleBit(b)

C10_Witness ==
    /\ status = "running"
    /\ Len(returned) >= 2
    /\ \E i, j \in 1..Len(sigmatch_table) :
           sigmatch_table[i].elmt.Setup # sigmatch_table[j].elmt.Setup

(***************************************************************************)
(* Properties of the codec and the token parsers.                          *)
(***************************************************************************)
Called(fn) == out # None /\ out.fn = fn

C5_AbsenceForUnknown ==
    /\ (Called("from_u") /\ out.set = "TestEnum") =>
           /\ out.res \in {None} \cup { Some(v) : v \in {"Zero", "BestValueEver"} }
           /\ out.arg \notin {0, 42} => out.res = None
    /\ (Called("from_str") /\ out.set = "TestEnum") =>
           /\ out.res \in {None} \cup { Some(v) : v \in {"Zero", "BestValueEver"} }
           /\ out.arg \notin {<<"z", "e", "r", "o">>, <<"b", "e", "s", "t", "_", "v", "a", "l", "u", "e", "_", "e", "v", "e", "r">>} => out.res = None

C5_Witness ==
    /\ Called("from_str")
    /\ out.set = "TestEnum"
    /\ out.arg = <<"Z", "e", "r", "o">>
    /\ out.res = None

Lowered(ident) == [i \in 1..Len(ident) |-> ToLower(ident[i])]

NotUnderscore(c) == c # "_"

\* C6: to_str of a variant is the lowercase snake-case form of its
\* identifier: Zero gives "zero", BestValueEver gives "best_value_ever"; the
\* name holds no capital, it is the lowercased identifier once its
\* underscores are taken out, and an underscore stands exactly before the
\* letter of each capital of the identifier but the first.
C6_SnakeCaseNames ==
    (Called("to_str") /\ out.set = "TestEnum") =>
        /\ out.arg = "Zero" => out.res = <<"z", "e", "r", "o">>
        /\ out.arg = "BestValueEver" => out.res = <<"b", "e", "s", "t", "_", "v", "a", "l", "u", "e", "_", "e", "v", "e", "r">>
        /\ \A i \in 1..Len(out.res) : ~IsUpper(out.res[i])
        /\ SelectSeq(out.res, NotUnderscore) = Lowered(Identifier(out.arg))
        /\ out.res[1] # "_" /\ out.res[Len(out.res)] # "_"
        /\ \A i \in 1..(Len(out.res) - 1) : ~(out.res[i] = "_" /\ out.res[i + 1] = "_")
        /\ Cardinality({ i \in 1..Len(out.res) : out.res[i] = "_" })
             = Cardinality({ i \in 2..Len(Identifier(out.arg)) : IsUpper(Identifier(out.arg)[i]) })

C6_Witness ==
    /\ Called("to_str")
    /\ out.set = "TestEnum"
    /\ out.arg = "BestValueEver"
    /\ out.res = <<"b", "e", "s", "t", "_", "v", "a", "l", "u", "e", "_", "e", "v", "e", "r">>

\* C7: get_endian_value maps "big" to BigEndian, "little" to LittleEndian
\* and "dce" to EndianDCE, and yields absence for every other token: case
\* variants, the empty token, tokens with surrounding blanks.
C7_EndianTokens ==
    Called("get_endian_value") =>
        out.res = IF out.arg = <<"b", "i", "g">> THEN Some("BigEndian")
                  ELSE IF out.arg = <<"l", "i", "t", "t", "l", "e">> THEN Some("LittleEndian")
                  ELSE IF out.arg = <<"d", "c", "e">> THEN Some("EndianDCE")
                  ELSE None

C7_Witness ==
    /\ Called("get_endian_value")
    /\ out.arg = <<"D", "C", "E">>
    /\ out.res = None

BaseCodesAreRadix ==
    /\ AsU8("ByteBase", "BaseOct") = 8
    /\ AsU8("ByteBase", "BaseDec") = 10
    /\ AsU8("ByteBase", "BaseHex") = 16

\* C8 as stated: get_string_value maps "oct", "dec" and "hex" to BaseOct,
\* BaseDec and BaseHex, whose codes are the radix 8, 10 and 16; the empty
\* token yields the default BaseDec; any other token yields absence.
C8_BaseTokensDefaultDec ==
    /\ BaseCodesAreRadix
    /\ Called("get_string_value") =>
           out.res = IF out.arg = <<"o", "c", "t">> THEN Some("BaseOct")
                     ELSE IF out.arg = <<"d", "e", "c">> THEN Some("BaseDec")
                     ELSE IF out.arg = <<"h", "e", "x">> THEN Some("BaseHex")
                     ELSE IF out.arg = <<>> THEN Some("BaseDec")
                     ELSE None

\* C8 as amended: get_string_value maps "oct", "dec" and "hex" to BaseOct,
\* BaseDec and BaseHex, whose codes are the radix 8, 10 and 16; every other
\* token, the empty token included, yields absence: the function applies no
\* default.
C8_BaseTokens ==
    /\ BaseCodesAreRadix
    /\ Called("get_string_value") =>
           out.res = IF out.arg = <<"o", "c", "t">> THEN Some("BaseOct")
                     ELSE IF out.arg = <<"d", "e", "c">> THEN Some("BaseDec")
                     ELSE IF out.arg = <<"h", "e", "x">> THEN Some("BaseHex")
                     ELSE None

C8_Witness ==
    /\ Called("get_string_value")
    /\ out.arg = <<>>
    /\ out.res = None

\* C9: the numeric codes are BigEndian = 1, LittleEndian = 2, EndianDCE = 3
\* and BaseOct = 8, BaseDec = 10, BaseHex = 16; within each set the codes are
\* pairwise distinct, and each fits a u8.
C9_WireCodes ==
    /\ Variants("ByteEndian") = {"BigEndian", "LittleEndian", "EndianDCE"}
    /\ Variants("ByteBase") = {"BaseOct", "BaseDec", "BaseHex"}
    /\ \A set \in {"ByteEndian", "ByteBase"} :
           /\ \A i, j \in 1..Len(Declared(set)) :
                  i # j => Declared(set)[i].code # Declared(set)[j].code
           /\ \A i \in 1..Len(Declared(set)) : Declared(set)[i].code \in 0..255
    /\ Called("as_u8") =>
           /\ out.arg = "BigEndian" => out.res = 1
           /\ out.arg = "LittleEndian" => out.res = 2
           /\ out.arg = "EndianDCE" => out.res = 3
           /\ out.arg = "BaseOct" => out.res = 8
           /\ out.arg = "BaseDec" => out.res = 10
           /\ out.arg = "BaseHex" => out.res = 16

C9_Witness ==
    /\ Called("as_u8")
    /\ out.set = "ByteEndian"
    /\ out.arg = "EndianDCE"
    /\ out.res = 3
====
